---- MODULE Spec2Model ----
(***************************************************************************)
(* The ENS160 driver (adafruit_ens160.py) against a simulated I2C device.  *)
(*                                                                         *)
(* The device is a register file.  Registers the driver writes (OPMODE,    *)
(* COMMAND, TEMP_IN, RH_IN) are memory cells; registers the device         *)
(* produces (STATUS, the AQI/TVOC/eCO2 block, the GPR block) return, at    *)
(* every bus read, a value chosen by the device, so two reads of STATUS    *)
(* in one call may differ.  Every bus transaction of a call is appended to *)
(* trace.  time.sleep() has no effect on the registers and is not modelled.*)
(*                                                                         *)
(* Units.  Temperatures passed to the driver are in 1/100 degree C.        *)
(* Temperatures returned are in 1/6400 degree C (so raw/64 - 273.15 is the *)
(* integer raw*100 - 27315*64).  Humidities passed are in 1/100 %, those   *)
(* returned in 1/51200 % (raw/512 is raw*100).                             *)
(***************************************************************************)
EXTENDS Integers, Sequences, FiniteSets

\* ---------------------------------------------------------------- constants
_ENS160_REG_PARTID == 0
_ENS160_REG_OPMODE == 16
_ENS160_REG_COMMAND == 18
_ENS160_REG_TEMPIN == 19
_ENS160_REG_RHIN == 21
_ENS160_REG_STATUS == 32
_ENS160_REG_AQI == 33
_ENS160_REG_GPRREAD == 72

MODE_SLEEP == 0
MODE_IDLE == 1
MODE_STANDARD == 2
MODE_RESET == 240
_valid_modes == {MODE_SLEEP, MODE_IDLE, MODE_STANDARD, MODE_RESET}

COMMAND_NOP == 0
COMMAND_CLRGPR == 204
COMMAND_GETAPPVER == 14

PART_ENS160 == 352
PART_ENS161 == 353
\* Mutant: the ENS161 identity is not accepted.
accepted_part_ids_ens160_only == {PART_ENS160}
accepted_part_ids == {PART_ENS160, PART_ENS161}

\* Python's None in the reading buffer (every decoded value is >= 0).
None == -1

\* ------------------------------------------------------------------- bounds
\* Temperatures checked for the round trip: -TempBelowZeroC .. TempHiC degrees C.
TempBelowZeroC == 40
TempHiC == 85
\* Humidities checked for the round trip: 0 .. HumHiPct %.
HumHiPct == 100
\* GPR raw values are 512*k, k in 0 .. MaxRawK (2^(raw/2048) = 2^(k/4)).
MaxRawK == 20

\* ------------------------------------------------------------- input sets
\* STATUS: bit 0 GPR ready, bit 1 data ready.
StatusVals == {0, 1, 2, 3}
PartIds == {PART_ENS160, PART_ENS161, 0}
PowerOnModes == {MODE_SLEEP, MODE_STANDARD}
ModeArgs == _valid_modes \cup {3, 255}
TempArgs == {2500, -4000}
HumArgs == {5000, 3333}
AqiRegVals == 0 .. 5
DataSamples == { <<2, 16, 39, 144, 1>>, <<5, 255, 255, 0, 0>> }
GprSamples == { <<0, 0, 0, 4, 0, 8, 0, 2>>, <<0, 40, 0, 16, 0, 20, 0, 12>> }
FwSamples == { <<9, 8, 7, 6, 5, 4, 3, 2>> }

ByteVals == {0, 1, 2, 16, 39, 144, 255}
AllData == [1 .. 5 -> ByteVals]
AllRawKs == (0 .. MaxRawK) \X (0 .. MaxRawK) \X {0, MaxRawK} \X {0, MaxRawK}
AllTemps == (0 - TempBelowZeroC * 100) .. (TempHiC * 100)
AllHums == 0 .. (HumHiPct * 100)
PriorBufs == { <<0, 0, 0, 0, 0, 0, 0, 0>>, <<255, 255, 255, 255, 255, 255, 255, 255>> }

\* ------------------------------------------------------------ pure helpers
Abs(x) == IF x < 0 THEN 0 - x ELSE x

\* Python int(): truncation toward zero of n/d, d > 0.
Trunc(n, d) == IF n >= 0 THEN n \div d ELSE 0 - ((0 - n) \div d)

\* adafruit_register ROBit(register, bit)
ROBit(byte, bit) == (byte \div (2 ^ bit)) % 2

\* adafruit_register ROBits(num_bits, register, lowest_bit)
ROBits(num_bits, byte, lowest_bit) == (byte \div (2 ^ lowest_bit)) % (2 ^ num_bits)

\* struct "<H": two bytes, low byte first.
U16(lo, hi) == lo + 256 * hi
LoByte(v) == v % 256
HiByte(v) == (v \div 256) % 256

\* ----------------------------------------------------------------- state
VARIABLES
    alive,        \* "none" before ENS160(), then "ready", or "failed" if __init__ raised
    reg,          \* the device's PART_ID and writable registers, by address
    _buf,         \* self._buf, 8 bytes
    _bufferdict,  \* self._bufferdict: [AQI, TVOC, eCO2, Resistances]
    op,           \* the last call
    arg,          \* its argument (None if it takes none)
    raised,       \* whether it raised
    ret,          \* what it returned
    trace         \* its bus transactions, in order: <<"R"|"W", address, bytes>>

vars == <<alive, reg, _buf, _bufferdict, op, arg, raised, ret, trace>>

Regs == {_ENS160_REG_PARTID, _ENS160_REG_OPMODE, _ENS160_REG_COMMAND,
         _ENS160_REG_TEMPIN, _ENS160_REG_RHIN}

EmptyBufferdict ==
    [AQI |-> None, TVOC |-> None, eCO2 |-> None,
     Resistances |-> <<None, None, None, None>>]

\* The running call: the object's fields, the device and the call's outcome.
Self == [reg |-> reg, _buf |-> _buf, _bufferdict |-> _bufferdict,
         trace |-> <<>>, raised |-> FALSE, ret |-> None]

\* ------------------------------------------------------------ bus accesses
\* UnaryStruct.__set__: one write of the packed value to the register.
WriteReg(m, addr, val) ==
    [m EXCEPT !.reg[addr] = val, !.trace = Append(@, <<"W", addr, <<val>>>>)]

\* UnaryStruct.__get__ / ROBit.__get__ / ROBits.__get__: one read; `val` is
\* what the device returns.
ReadReg(m, addr, val) ==
    [m EXCEPT !.trace = Append(@, <<"R", addr, <<val>>>>)]

\* i2c.write_then_readinto(self._buf, self._buf, out_end=1, in_end=n): the
\* address sent is _buf[0]; `bytes` (n of them) overwrite _buf[0:n].
BurstRead(m, bytes) ==
    [m EXCEPT !._buf = [i \in 1 .. 8 |-> IF i <= Len(bytes) THEN bytes[i] ELSE @[i]],
              !.trace = Append(@, <<"R", m._buf[1], bytes>>)]

Raise(m) == [m EXCEPT !.raised = TRUE]
Return(m, val) == IF m.raised THEN m ELSE [m EXCEPT !.ret = val]

\* ------------------------------------------------------------- conversions
\* Mutant: the Kelvin offset taken as 273 instead of 273.15.
temp_in_raw_offset_273(t100) == Trunc((t100 + 27300) * 64 + 50, 100)

\* int((temp_c + 273.15) * 64.0 + 0.5), temp_c = t100 / 100
temp_in_raw(t100) == Trunc((t100 + 27315) * 64 + 50, 100)

\* (self._temp_in / 64.0) - 273.15, in 1/6400 degree C
temp_in_celsius(raw) == raw * 100 - 27315 * 64

\* int(hum_perc * 512 + 0.5), hum_perc = h100 / 100
rh_in_raw(h100) == Trunc(h100 * 512 + 50, 100)

\* self._rh_in / 512.0, in 1/51200 %
rh_in_percent(raw) == raw * 100

\* Mutant: ">BHHBBB", the 16-bit fields read high byte first.
unpack_BHHBBB_big_endian(b) == <<b[1], U16(b[3], b[2]), U16(b[5], b[4])>>

\* struct.unpack("<BHHBBB", self._buf)[0:3]
unpack_BHHBBB(b) == <<b[1], U16(b[2], b[3]), U16(b[4], b[5])>>

\* struct.unpack("<HHHH", self._buf)
unpack_HHHH(b) == <<U16(b[1], b[2]), U16(b[3], b[4]), U16(b[5], b[6]), U16(b[7], b[8])>>

\* Mutant: round(pow(2, x / 2048.0)), the nearest whole number.
resistance_rounded(x) ==
    LET k == x \div 512
    IN  CHOOSE r \in (2 ^ (k \div 4)) .. (2 ^ (k \div 4 + 1)) :
            (2 * r - 1) ^ 4 <= 16 * 2 ^ k /\ 16 * 2 ^ k < (2 * r + 1) ^ 4

\* int(pow(2, x / 2048.0)) for x = 512*k: the integer part of 2^(k/4), the
\* r with r^4 <= 2^k < (r+1)^4.
resistance(x) ==
    LET k == x \div 512
    IN  CHOOSE r \in (2 ^ (k \div 4)) .. (2 ^ (k \div 4 + 1)) :
            r ^ 4 <= 2 ^ k /\ 2 ^ k < (r + 1) ^ 4

\* The 8 GPR bytes holding the raw values 512*ks[1] .. 512*ks[4].
GprBytes(ks) ==
    [i \in 1 .. 8 |-> IF i % 2 = 1 THEN LoByte(512 * ks[(i + 1) \div 2])
                                    ELSE HiByte(512 * ks[i \div 2])]

\* ------------------------------------------------------------ the methods
clear_command(m) ==
    WriteReg(WriteReg(m, _ENS160_REG_COMMAND, COMMAND_NOP),
             _ENS160_REG_COMMAND, COMMAND_CLRGPR)

mode(m) ==
    Return(ReadReg(m, _ENS160_REG_OPMODE, m.reg[_ENS160_REG_OPMODE]),
           m.reg[_ENS160_REG_OPMODE])

\* Mutant: the register is written without the membership test.
mode_setter_unchecked(m, newmode) == WriteReg(m, _ENS160_REG_OPMODE, newmode)

mode_setter(m, newmode) ==
    IF newmode \notin _valid_modes
    THEN Raise(m)
    ELSE WriteReg(m, _ENS160_REG_OPMODE, newmode)

reset(m) == mode_setter(m, MODE_RESET)

temperature_compensation(m) ==
    Return(ReadReg(m, _ENS160_REG_TEMPIN, m.reg[_ENS160_REG_TEMPIN]),
           temp_in_celsius(m.reg[_ENS160_REG_TEMPIN]))

temperature_compensation_setter(m, t100) ==
    WriteReg(m, _ENS160_REG_TEMPIN, temp_in_raw(t100))

humidity_compensation(m) ==
    Return(ReadReg(m, _ENS160_REG_RHIN, m.reg[_ENS160_REG_RHIN]),
           rh_in_percent(m.reg[_ENS160_REG_RHIN]))

humidity_compensation_setter(m, h100) ==
    WriteReg(m, _ENS160_REG_RHIN, rh_in_raw(h100))

\* AQI = ROBits(2, _ENS160_REG_AQI, 0); `b` is the register's content.
AQI(m, b) == Return(ReadReg(m, _ENS160_REG_AQI, b), ROBits(2, b, 0))

\* `g`: the 8 bytes the device returns.
_read_gpr(m, g) == BurstRead([m EXCEPT !._buf[1] = _ENS160_REG_GPRREAD], g)

\* Mutant: the two status bits exchanged (data-ready taken from bit 0,
\* GPR-ready from bit 1).
new_data_available_swapped_bits(m, s1, d, s2, g) ==
    LET m1 == ReadReg(m, _ENS160_REG_STATUS, s1)
        m2 == IF ROBit(s1, 0) = 1
              THEN LET r == BurstRead([m1 EXCEPT !._buf[1] = _ENS160_REG_AQI], d)
                       u == unpack_BHHBBB(r._buf)
                   IN  [r EXCEPT !._bufferdict.AQI = u[1],
                                 !._bufferdict.TVOC = u[2],
                                 !._bufferdict.eCO2 = u[3]]
              ELSE m1
        m3 == ReadReg(m2, _ENS160_REG_STATUS, s2)
        m4 == IF ROBit(s2, 1) = 1
              THEN LET r == _read_gpr(m3, g)
                       u == unpack_HHHH(r._buf)
                   IN  [r EXCEPT !._bufferdict.Resistances =
                                     [i \in 1 .. 4 |-> resistance(u[i])]]
              ELSE m3
    IN  Return(m4, ROBit(s1, 0) = 1 \/ ROBit(s2, 1) = 1)

\* Mutant: STATUS read once, both decisions taken from that value.
new_data_available_one_status_read(m, s1, d, s2, g) ==
    LET m1 == ReadReg(m, _ENS160_REG_STATUS, s1)
        m2 == IF ROBit(s1, 1) = 1
              THEN LET r == BurstRead([m1 EXCEPT !._buf[1] = _ENS160_REG_AQI], d)
                       u == unpack_BHHBBB(r._buf)
                   IN  [r EXCEPT !._bufferdict.AQI = u[1],
                                 !._bufferdict.TVOC = u[2],
                                 !._bufferdict.eCO2 = u[3]]
              ELSE m1
        m4 == IF ROBit(s1, 0) = 1
              THEN LET r == _read_gpr(m2, g)
                       u == unpack_HHHH(r._buf)
                   IN  [r EXCEPT !._bufferdict.Resistances =
                                     [i \in 1 .. 4 |-> resistance(u[i])]]
              ELSE m2
    IN  Return(m4, ROBit(s1, 1) = 1 \/ ROBit(s1, 0) = 1)

\* s1, s2: STATUS as returned to self._new_data_available and to
\* self._new_GPR_available; d: the 5 data bytes; g: the 8 GPR bytes.
new_data_available(m, s1, d, s2, g) ==
    LET m1 == ReadReg(m, _ENS160_REG_STATUS, s1)
        m2 == IF ROBit(s1, 1) = 1
              THEN LET r == BurstRead([m1 EXCEPT !._buf[1] = _ENS160_REG_AQI], d)
                       u == unpack_BHHBBB(r._buf)
                   IN  [r EXCEPT !._bufferdict.AQI = u[1],
                                 !._bufferdict.TVOC = u[2],
                                 !._bufferdict.eCO2 = u[3]]
              ELSE m1
        m3 == ReadReg(m2, _ENS160_REG_STATUS, s2)
        m4 == IF ROBit(s2, 0) = 1
              THEN LET r == _read_gpr(m3, g)
                       u == unpack_HHHH(r._buf)
                   IN  [r EXCEPT !._bufferdict.Resistances =
                                     [i \in 1 .. 4 |-> resistance(u[i])]]
              ELSE m3
    IN  Return(m4, ROBit(s1, 1) = 1 \/ ROBit(s2, 0) = 1)

read_all_sensors(m) == Return(m, m._bufferdict)

\* Mutant: the saved mode is not written back.
firmware_version_stays_idle(m, g) ==
    LET curr_mode == m.reg[_ENS160_REG_OPMODE]
        m1 == ReadReg(m, _ENS160_REG_OPMODE, curr_mode)
        m2 == mode_setter(m1, MODE_IDLE)
        m3 == clear_command(m2)
        m4 == WriteReg(m3, _ENS160_REG_COMMAND, COMMAND_GETAPPVER)
        m5 == _read_gpr(m4, g)
    IN  Return(m5, <<m5._buf[5], m5._buf[6], m5._buf[7]>>)

\* Mutant: the GPR block is read before GETAPPVER is written.
firmware_version_reads_first(m, g) ==
    LET curr_mode == m.reg[_ENS160_REG_OPMODE]
        m1 == ReadReg(m, _ENS160_REG_OPMODE, curr_mode)
        m2 == mode_setter(m1, MODE_IDLE)
        m3 == clear_command(m2)
        m4 == _read_gpr(m3, g)
        m5 == WriteReg(m4, _ENS160_REG_COMMAND, COMMAND_GETAPPVER)
        m6 == mode_setter(m5, curr_mode)
    IN  Return(m6, <<m6._buf[5], m6._buf[6], m6._buf[7]>>)

\* Returns <<major, minor, patch>> for "%d.%d.%d".
firmware_version(m, g) ==
    LET curr_mode == m.reg[_ENS160_REG_OPMODE]
        m1 == ReadReg(m, _ENS160_REG_OPMODE, curr_mode)
        m2 == mode_setter(m1, MODE_IDLE)
        m3 == clear_command(m2)
        m4 == WriteReg(m3, _ENS160_REG_COMMAND, COMMAND_GETAPPVER)
        m5 == _read_gpr(m4, g)
        m6 == mode_setter(m5, curr_mode)
    IN  Return(m6, <<m6._buf[5], m6._buf[6], m6._buf[7]>>)

__init__(m) ==
    LET part_id == m.reg[_ENS160_REG_PARTID]
        m1 == ReadReg(m, _ENS160_REG_PARTID, part_id)
    IN  IF part_id \notin accepted_part_ids
        THEN Raise(m1)
        ELSE LET m2 == clear_command(m1)
                 m3 == mode_setter(m2, MODE_STANDARD)
                 m4 == [m3 EXCEPT !._buf = [i \in 1 .. 8 |-> 0],
                                  !._bufferdict = EmptyBufferdict]
                 m5 == temperature_compensation_setter(m4, 2500)
             IN  humidity_compensation_setter(m5, 5000)

\* ---------------------------------------------------------------- actions
Commit(name, a, m) ==
    /\ reg' = m.reg
    /\ _buf' = m._buf
    /\ _bufferdict' = m._bufferdict
    /\ op' = name
    /\ arg' = a
    /\ raised' = m.raised
    /\ ret' = m.ret
    /\ trace' = m.trace

\* Before ENS160() there is no object: _buf and _bufferdict stand at the
\* values __init__ gives them and nothing reads them.
Init ==
    /\ alive = "none"
    /\ reg \in {r \in [Regs -> PartIds \cup PowerOnModes] :
                   /\ r[_ENS160_REG_PARTID] \in PartIds
                   /\ r[_ENS160_REG_OPMODE] \in PowerOnModes
                   /\ r[_ENS160_REG_COMMAND] = COMMAND_NOP
                   /\ r[_ENS160_REG_TEMPIN] = 0
                   /\ r[_ENS160_REG_RHIN] = 0}
    /\ _buf = [i \in 1 .. 8 |-> 0]
    /\ _bufferdict = EmptyBufferdict
    /\ op = "none"
    /\ arg = None
    /\ raised = FALSE
    /\ ret = None
    /\ trace = <<>>

Construct ==
    /\ alive = "none"
    /\ LET m == __init__(Self)
       IN  /\ alive' = IF m.raised THEN "failed" ELSE "ready"
           /\ Commit("__init__", None, m)

Reset ==
    /\ alive = "ready"
    /\ Commit("reset", None, reset(Self))
    /\ UNCHANGED alive

ClearCommand ==
    /\ alive = "ready"
    /\ Commit("clear_command", None, clear_command(Self))
    /\ UNCHANGED alive

NewDataAvailable(S1, D, S2, G) ==
    /\ alive = "ready"
    /\ \E s1 \in S1, s2 \in S2 :
       \E d \in IF ROBit(s1, 1) = 1 THEN D ELSE {CHOOSE x \in D : TRUE},
          g \in IF ROBit(s2, 0) = 1 THEN G ELSE {CHOOSE x \in G : TRUE} :
          Commit("new_data_available", None, new_data_available(Self, s1, d, s2, g))
    /\ UNCHANGED alive

ReadAllSensors ==
    /\ alive = "ready"
    /\ Commit("read_all_sensors", None, read_all_sensors(Self))
    /\ UNCHANGED alive

FirmwareVersion ==
    /\ alive = "ready"
    /\ \E g \in FwSamples :
          Commit("firmware_version", None, firmware_version(Self, g))
    /\ UNCHANGED alive

ModeGet ==
    /\ alive = "ready"
    /\ Commit("mode", None, mode(Self))
    /\ UNCHANGED alive

ModeSet ==
    /\ alive = "ready"
    /\ \E newmode \in ModeArgs :
          Commit("mode.setter", newmode, mode_setter(Self, newmode))
    /\ UNCHANGED alive

TemperatureGet ==
    /\ alive = "ready"
    /\ Commit("temperature_compensation", None, temperature_compensation(Self))
    /\ UNCHANGED alive

TemperatureSet(T) ==
    /\ alive = "ready"
    /\ \E t100 \in T :
          Commit("temperature_compensation.setter", t100,
                 temperature_compensation_setter(Self, t100))
    /\ UNCHANGED alive

HumidityGet ==
    /\ alive = "ready"
    /\ Commit("humidity_compensation", None, humidity_compensation(Self))
    /\ UNCHANGED alive

HumiditySet(H) ==
    /\ alive = "ready"
    /\ \E h100 \in H :
          Commit("humidity_compensation.setter", h100,
                 humidity_compensation_setter(Self, h100))
    /\ UNCHANGED alive

AQIGet ==
    /\ alive = "ready"
    /\ \E b \in AqiRegVals : Commit("AQI", b, AQI(Self, b))
    /\ UNCHANGED alive

Next ==
    \/ Construct
    \/ Reset
    \/ ClearCommand
    \/ NewDataAvailable(StatusVals, DataSamples, StatusVals, GprSamples)
    \/ ReadAllSensors
    \/ FirmwareVersion
    \/ ModeGet
    \/ ModeSet
    \/ TemperatureGet
    \/ TemperatureSet(TempArgs)
    \/ HumidityGet
    \/ HumiditySet(HumArgs)
    \/ AQIGet

Spec == Init /\ [][Next]_vars

\* ------------------------------------------- the conversions, input by input
\* A constructed driver (part ENS160) on which nothing has been called yet;
\* _buf holds what an earlier GPR read left in it.
NumInit ==
    /\ alive = "ready"
    /\ LET m == __init__([reg |-> [r \in Regs |-> IF r = _ENS160_REG_PARTID
                                                  THEN PART_ENS160 ELSE 0],
                          _buf |-> <<>>, _bufferdict |-> EmptyBufferdict,
                          trace |-> <<>>, raised |-> FALSE, ret |-> None])
       IN  /\ reg = m.reg
           /\ _bufferdict = m._bufferdict
    /\ _buf \in PriorBufs
    /\ op = "none"
    /\ arg = None
    /\ raised = FALSE
    /\ ret = None
    /\ trace = <<>>

DataReady == {s \in StatusVals : ROBit(s, 1) = 1}
GprReady == {s \in StatusVals : ROBit(s, 0) = 1}

\* One call on the fresh driver, over the whole input range ...
NumTemperatureSet == op = "none" /\ TemperatureSet(AllTemps)

NumHumiditySet == op = "none" /\ HumiditySet(AllHums)

NumPollData ==
    /\ op = "none"
    /\ NewDataAvailable(DataReady, AllData, StatusVals \ GprReady, GprSamples)

NumPollGpr ==
    /\ op = "none"
    /\ NewDataAvailable(StatusVals \ DataReady, DataSamples, GprReady,
                        {GprBytes(ks) : ks \in AllRawKs})

\* ... and the read that follows a set.
NumTemperatureGet == op = "temperature_compensation.setter" /\ TemperatureGet

NumHumidityGet == op = "humidity_compensation.setter" /\ HumidityGet

NumNext ==
    \/ NumTemperatureSet
    \/ NumHumiditySet
    \/ NumPollData
    \/ NumPollGpr
    \/ NumTemperatureGet
    \/ NumHumidityGet

NumSpec == NumInit /\ [][NumNext]_vars

\* ================================================================= claims
\* What a call's trace shows.
IsRead(e, addr) == e[1] = "R" /\ e[2] = addr
IsWrite(e, addr, val) == e = <<"W", addr, <<val>>>>
StatusReads(tr) == SelectSeq(tr, LAMBDA e : IsRead(e, _ENS160_REG_STATUS))
DataReads(tr) == SelectSeq(tr, LAMBDA e : IsRead(e, _ENS160_REG_AQI))
GprReads(tr) == SelectSeq(tr, LAMBDA e : IsRead(e, _ENS160_REG_GPRREAD))
IsPoll(o) == o = "new_data_available"
\* The STATUS value behind a poll's data-ready decision (its first STATUS
\* read) and behind its GPR-ready decision (its last).
DataStatus(tr) == StatusReads(tr)[1][3][1]
GprStatus(tr) == StatusReads(tr)[Len(StatusReads(tr))][3][1]
SawData(tr) == ROBit(DataStatus(tr), 1) = 1
SawGpr(tr) == ROBit(GprStatus(tr), 0) = 1
\* 25 degrees C and 50 % in the units the getters return.
Celsius25 == 2500 * 64
Percent50 == 5000 * 512

\* ---- C1 ----------------------------------------------------------------
\* C1 as stated: construction raises exactly when PART_ID is neither 0x160
\* nor 0x161; after a successful construction OPMODE holds Standard, the
\* temperature compensation reads back as 25 degrees C and the humidity
\* compensation as 50 %.
C1_AsStated ==
    op = "__init__" =>
        /\ raised <=> reg[_ENS160_REG_PARTID] \notin {352, 353}
        /\ alive = IF raised THEN "failed" ELSE "ready"
        /\ ~raised =>
              /\ reg[_ENS160_REG_OPMODE] = MODE_STANDARD
              /\ temperature_compensation(Self).ret = Celsius25
              /\ humidity_compensation(Self).ret = Percent50

\* C1 (amended): as C1, but the temperature compensation reads back within
\* 1/64 degree C of 25: TEMP_IN holds 19082 and reads back as 25.00625.
C1_Construction ==
    op = "__init__" =>
        /\ raised <=> reg[_ENS160_REG_PARTID] \notin {352, 353}
        /\ alive = IF raised THEN "failed" ELSE "ready"
        /\ ~raised =>
              /\ reg[_ENS160_REG_OPMODE] = MODE_STANDARD
              /\ reg[_ENS160_REG_TEMPIN] = 19082
              /\ temperature_compensation(Self).ret = Celsius25 + 40
              /\ Abs(temperature_compensation(Self).ret - Celsius25) <= 100
              /\ humidity_compensation(Self).ret = Percent50

C1_Witness ==
    /\ op = "__init__"
    /\ alive = "ready"
    /\ reg[_ENS160_REG_PARTID] = 353
    /\ temperature_compensation(Self).ret = 160040

\* ---- C2 ----------------------------------------------------------------
\* C2: a mode set with a value outside {0x00, 0x01, 0x02, 0xF0} raises,
\* issues no bus write and leaves every register as it was; with a value
\* inside the set it writes OPMODE once, and a mode get that follows
\* returns that value.
C2_ModeSet ==
    [][ /\ op' = "mode.setter" /\ arg' \notin {0, 1, 2, 240} =>
              raised' /\ trace' = <<>> /\ reg' = reg
        /\ op' = "mode.setter" /\ arg' \in {0, 1, 2, 240} =>
              /\ ~raised'
              /\ trace' = << <<"W", _ENS160_REG_OPMODE, <<arg'>>>> >>
              /\ reg'[_ENS160_REG_OPMODE] = arg'
        /\ op = "mode.setter" /\ ~raised /\ op' = "mode" =>
              ret' = arg
      ]_vars

C2_Witness ==
    /\ op = "mode.setter"
    /\ arg = 255
    /\ raised
    /\ reg[_ENS160_REG_OPMODE] = MODE_IDLE

\* ---- C3 ----------------------------------------------------------------
\* C3: when firmware_version returns, OPMODE holds the value it held when
\* the call started, whichever of the four modes that was; the call does
\* not raise.
C3_ModeRestored ==
    [][ op' = "firmware_version" =>
            /\ ~raised'
            /\ reg[_ENS160_REG_OPMODE] \in _valid_modes
            /\ reg'[_ENS160_REG_OPMODE] = reg[_ENS160_REG_OPMODE]
      ]_vars

C3_Witness ==
    /\ op = "firmware_version"
    /\ ~raised
    /\ reg[_ENS160_REG_OPMODE] = MODE_RESET

\* ---- C4 ----------------------------------------------------------------
\* C4: a poll that observes the data-ready bit burst-reads 5 bytes b0..b4
\* at the AQI register and stores AQI = b0, TVOC = b1 + 256*b2 and
\* eCO2 = b3 + 256*b4, whatever the bytes and whatever _buf held before.
C4_DataDecode ==
    IsPoll(op) /\ SawData(trace) =>
        /\ Len(DataReads(trace)) = 1
        /\ LET b == DataReads(trace)[1][3]
           IN  /\ Len(b) = 5
               /\ _bufferdict.AQI = b[1]
               /\ _bufferdict.TVOC = b[2] + 256 * b[3]
               /\ _bufferdict.eCO2 = b[4] + 256 * b[5]

\* Bytes 2, 0x10, 0x27, 0x90, 0x01 read over a buffer full of 0xFF.
C4_Witness ==
    /\ IsPoll(op)
    /\ SawData(trace)
    /\ DataReads(trace)[1][3] = <<2, 16, 39, 144, 1>>
    /\ _buf = <<2, 16, 39, 144, 1, 255, 255, 255>>
    /\ _bufferdict.AQI = 2
    /\ _bufferdict.TVOC = 10000
    /\ _bufferdict.eCO2 = 400

\* ---- C5 ----------------------------------------------------------------
\* C5: the reading buffer is all None after construction; AQI, TVOC and
\* eCO2 change only in a poll that observed data-ready, the resistances only
\* in a poll that observed GPR-ready; a poll that observed neither returns
\* false and leaves the buffer as it was; no other call changes the buffer.
C5_BufferFrame ==
    [][ /\ op' = "__init__" /\ ~raised' => _bufferdict' = EmptyBufferdict
        /\ alive = "ready" =>
              /\ <<_bufferdict.AQI, _bufferdict.TVOC, _bufferdict.eCO2>>
                     # <<_bufferdict'.AQI, _bufferdict'.TVOC, _bufferdict'.eCO2>>
                   => IsPoll(op') /\ SawData(trace')
              /\ _bufferdict.Resistances # _bufferdict'.Resistances
                   => IsPoll(op') /\ SawGpr(trace')
              /\ IsPoll(op') /\ ~SawData(trace') /\ ~SawGpr(trace')
                   => ret' = FALSE /\ _bufferdict' = _bufferdict
              /\ IsPoll(op') /\ (SawData(trace') \/ SawGpr(trace'))
                   => ret' = TRUE
      ]_vars

\* firmware_version has overwritten _buf while the buffer holds a data
\* reading and no resistances yet.
C5_Witness ==
    /\ op = "firmware_version"
    /\ _buf \in FwSamples
    /\ _bufferdict.AQI = 2
    /\ _bufferdict.TVOC = 10000
    /\ _bufferdict.Resistances = <<None, None, None, None>>

\* ---- C6 ----------------------------------------------------------------
\* C6: for every index 1..5 held in the AQI register, the AQI attribute
\* returns that index (the value a poll stores for the same register byte).
C6_AqiAttribute ==
    op = "AQI" /\ arg \in 1 .. 5 =>
        /\ ret = arg
        /\ ret = unpack_BHHBBB(<<arg, 0, 0, 0, 0, 0, 0, 0>>)[1]

\* ---- C7 ----------------------------------------------------------------
\* |r - 2^(k/4)| within 1.5 % of 2^(k/4), stated on fourth powers; far
\* looser than any floating-point tolerance.
Near(r, k) == 16 * Abs(r ^ 4 - 2 ^ k) <= 2 ^ k
RawOf(g, i) == g[2 * i - 1] + 256 * g[2 * i]

\* C7 as stated: a poll that observes GPR-ready reads 8 bytes at the GPR
\* register and stores, for each of the four little-endian 16-bit raw
\* values, a resistance equal to 2^(raw/2048.0) within tolerance.
C7_AsStated ==
    IsPoll(op) /\ SawGpr(trace) =>
        /\ Len(GprReads(trace)) = 1
        /\ LET g == GprReads(trace)[1][3]
           IN  /\ Len(g) = 8
               /\ \A i \in 1 .. 4 :
                     Near(_bufferdict.Resistances[i], RawOf(g, i) \div 512)

\* C7 (amended): ... stores the integer part of 2^(raw/2048.0), that is
\* int(2^(raw/2048.0)): the whole number r with r <= 2^(raw/2048) < r + 1.
C7_Resistances ==
    IsPoll(op) /\ SawGpr(trace) =>
        /\ Len(GprReads(trace)) = 1
        /\ LET g == GprReads(trace)[1][3]
           IN  /\ Len(g) = 8
               /\ \A i \in 1 .. 4 :
                     LET r == _bufferdict.Resistances[i]
                         k == RawOf(g, i) \div 512
                     IN  /\ RawOf(g, i) = 512 * k
                         /\ r >= 1
                         /\ r ^ 4 <= 2 ^ k
                         /\ 2 ^ k < (r + 1) ^ 4

\* Raw values 5120, 1024, 0 and 512*MaxRawK: 2^2.5 = 5.66 is stored as 5,
\* 2^0.5 = 1.41 as 1.
C7_Witness ==
    /\ IsPoll(op)
    /\ SawGpr(trace)
    /\ GprReads(trace)[1][3] = GprBytes(<<10, 2, 0, MaxRawK>>)
    /\ _bufferdict.Resistances[1] = 5
    /\ _bufferdict.Resistances[2] = 1
    /\ _bufferdict.Resistances[3] = 1

\* ---- C8 ----------------------------------------------------------------
\* C8: for every temperature in -40..85 degrees C (in steps of 0.01) the
\* value read back after a set is within 1/64 degree C of the value set,
\* for every humidity in 0..100 % within 1/512 %, and the raw value written
\* is in 0..65535.
C8_RoundTrip ==
    [][ /\ op' = "temperature_compensation.setter" =>
              reg'[_ENS160_REG_TEMPIN] \in 0 .. 65535
        /\ op = "temperature_compensation.setter" /\ op' = "temperature_compensation" =>
              Abs(ret' - arg * 64) <= 100
        /\ op' = "humidity_compensation.setter" =>
              reg'[_ENS160_REG_RHIN] \in 0 .. 65535
        /\ op = "humidity_compensation.setter" /\ op' = "humidity_compensation" =>
              Abs(ret' - arg * 512) <= 100
      ]_vars

\* -40 degrees C was set (raw 14922) and read back as -39.99375.
C8_Witness ==
    /\ op = "temperature_compensation"
    /\ reg[_ENS160_REG_TEMPIN] = 14922
    /\ ret = 0 - 255960

\* ---- C9 ----------------------------------------------------------------
\* C9 as stated: one poll reads STATUS exactly once and takes both the
\* data-ready and the GPR-ready decision from that value.
C9_AsStated ==
    IsPoll(op) =>
        /\ Len(StatusReads(trace)) = 1
        /\ DataStatus(trace) = GprStatus(trace)

\* C9 (amended): one poll reads STATUS twice.  The data-ready decision comes
\* from the first read, which is the poll's first bus access; the data burst
\* read, if any, follows it; the GPR-ready decision comes from the second
\* read, made after the data burst read; so the two decisions can come from
\* different status values.
C9_TwoStatusReads ==
    IsPoll(op) =>
        LET n == Len(trace)
            d == IF SawData(trace) THEN 1 ELSE 0
            g == IF SawGpr(trace) THEN 1 ELSE 0
        IN  /\ Len(StatusReads(trace)) = 2
            /\ n = 2 + d + g
            /\ IsRead(trace[1], _ENS160_REG_STATUS)
            /\ d = 1 => IsRead(trace[2], _ENS160_REG_AQI)
            /\ IsRead(trace[2 + d], _ENS160_REG_STATUS)
            /\ g = 1 => IsRead(trace[n], _ENS160_REG_GPRREAD)
            /\ Len(DataReads(trace)) = d
            /\ Len(GprReads(trace)) = g
            /\ ret = (d = 1 \/ g = 1)

\* The first read saw GPR-ready only, the second data-ready only: neither
\* decision fired although each bit was set at one of the reads.
C9_Witness ==
    /\ IsPoll(op)
    /\ DataStatus(trace) = 1
    /\ GprStatus(trace) = 2
    /\ Len(trace) = 2
    /\ ret = FALSE

\* ---- C10 ---------------------------------------------------------------
\* The content of OPMODE just before the i-th access of a trace (None if the
\* trace does not tell).
OpmodeBefore(tr, i) ==
    LET ws == {j \in 1 .. (i - 1) : tr[j][2] = _ENS160_REG_OPMODE}
    IN  IF ws = {} THEN None
        ELSE tr[CHOOSE j \in ws : \A l \in ws : l <= j][3][1]

\* C10: firmware_version's bus accesses are, in order: read OPMODE, write
\* OPMODE = Idle, write COMMAND = NOP, COMMAND = CLRGPR, COMMAND = GETAPPVER,
\* read 8 bytes at GPR_READ, write OPMODE = the mode read; GETAPPVER is
\* never written unless OPMODE holds Idle; the version returned is the GPR
\* bytes at offsets 4, 5, 6.
C10_FirmwareSequence ==
    /\ op = "firmware_version" =>
          /\ Len(trace) = 7
          /\ LET saved == trace[1][3][1]
                 g == trace[6][3]
             IN  /\ trace = << <<"R", 16, <<saved>>>>,
                               <<"W", 16, <<1>>>>,
                               <<"W", 18, <<0>>>>,
                               <<"W", 18, <<204>>>>,
                               <<"W", 18, <<14>>>>,
                               <<"R", 72, g>>,
                               <<"W", 16, <<saved>>>> >>
                 /\ Len(g) = 8
                 /\ ret = <<g[5], g[6], g[7]>>
    /\ \A i \in 1 .. Len(trace) :
          IsWrite(trace[i], _ENS160_REG_COMMAND, COMMAND_GETAPPVER) =>
              op = "firmware_version" /\ OpmodeBefore(trace, i) = MODE_IDLE

C10_Witness ==
    /\ op = "firmware_version"
    /\ trace[1] = <<"R", 16, <<2>>>>
    /\ trace[6] = <<"R", 72, <<9, 8, 7, 6, 5, 4, 3, 2>>>>
    /\ ret = <<5, 4, 3>>
    /\ reg[_ENS160_REG_OPMODE] = MODE_STANDARD
====
